---- MODULE Spec2Model ----
(***************************************************************************)
(* Company search front end: the App component (search requests, their     *)
(* responses and the detail modal) and the CompanyModal render pipeline    *)
(* (parseJSON, Totals row separation, funding-by-year chart data).         *)
(*                                                                         *)
(* Representation.  A JavaScript value is a record [t, v]: t is the type   *)
(* tag and v the payload.  A JavaScript string is a sequence of one-       *)
(* character strings, so that the character-level conversions of the code  *)
(* (the /[^0-9.]/g replace, parseFloat, Date parsing, toString) are        *)
(* computed and not assumed.  The text of a JSON field is kept after       *)
(* lexing, as a sequence of tokens; JSON.parse is the parser over them.    *)
(* Amounts are exact decimal fixed-point numbers (see ParseFloat).         *)
(***************************************************************************)
EXTENDS Integers, Sequences, FiniteSets, TLC

\* ------------------------------------------------------------------ bounds
MaxRows == 2        \* longest funding_history array the backend encodes
MaxSearches == 3    \* number of searches started in one behaviour
MaxRenders == 2     \* number of times CompanyModal renders one record

\* ------------------------------------------------------- JavaScript values
Undefined == [t |-> "undefined", v |-> 0]
Null == [t |-> "null", v |-> 0]
Bool(b) == [t |-> "bool", v |-> b]
Num(n) == [t |-> "num", v |-> n]
Str(s) == [t |-> "str", v |-> s]
Arr(a) == [t |-> "arr", v |-> a]
Obj(o) == [t |-> "obj", v |-> o]
\* a string holding JSON text, kept as its token sequence
Text(ts) == [t |-> "text", v |-> ts]

\* ToBoolean, as used by !x, x && y, x || y and Array.prototype.filter
Truthy(x) ==
  CASE x.t = "undefined" -> FALSE
    [] x.t = "null" -> FALSE
    [] x.t = "bool" -> x.v
    [] x.t = "num" -> x.v # 0
    [] x.t = "str" -> x.v # <<>>
    [] x.t = "text" -> x.v # <<>>
    [] OTHER -> TRUE

\* ---------------------------------------------------------------- strings
DigitChars == <<"0", "1", "2", "3", "4", "5", "6", "7", "8", "9">>
DigitSet == {DigitChars[i] : i \in 1..10}
DigitVal(c) == (CHOOSE i \in 1..10 : DigitChars[i] = c) - 1
IsDigits(s) == \A i \in 1..Len(s) : s[i] \in DigitSet

RECURSIVE DigitsToInt(_)
DigitsToInt(s) ==
  IF s = <<>> THEN 0
  ELSE 10 * DigitsToInt(SubSeq(s, 1, Len(s) - 1)) + DigitVal(s[Len(s)])

\* Number.prototype.toString for a non-negative integer
RECURSIVE IntToString(_)
IntToString(n) ==
  IF n < 10 THEN <<DigitChars[n + 1]>>
  ELSE IntToString(n \div 10) \o <<DigitChars[(n % 10) + 1]>>

NaNString == <<"N", "a", "N">>
UndefinedString == <<"u", "n", "d", "e", "f", "i", "n", "e", "d">>
NullString == <<"n", "u", "l", "l">>
TrueString == <<"t", "r", "u", "e">>
FalseString == <<"f", "a", "l", "s", "e">>

\* property names of a funding_history row
KeyDate == <<"D", "a", "t", "e", " ", "o", "f", " ", "F", "i", "n", "a", "n", "c", "i", "n", "g">>
KeyShareClass == <<"S", "h", "a", "r", "e", " ", "C", "l", "a", "s", "s">>
KeySize == <<"T", "o", "t", "a", "l", " ", "F", "i", "n", "a", "n", "c", "i", "n", "g", " ", "S", "i", "z", "e">>
\* property names of a price_history point
KeyName == <<"n", "a", "m", "e">>
KeyPrice == <<"p", "r", "i", "c", "e">>

TotalsLabel == <<"T", "o", "t", "a", "l", "s">>

\* ------------------------------------------------------------ JSON text
Tok(k) == [k |-> k, s |-> <<>>, n |-> 0]
StrTok(s) == [k |-> "str", s |-> s, n |-> 0]
NumTok(n) == [k |-> "num", s |-> <<>>, n |-> n]

RECURSIVE SetToSeq(_)
SetToSeq(S) ==
  IF S = {} THEN <<>>
  ELSE LET x == CHOOSE y \in S : TRUE IN <<x>> \o SetToSeq(S \ {x})

\* The backend's encoder (the embedded field encoding the modal consumes).
RECURSIVE Stringify(_)
RECURSIVE StringifyElements(_)
RECURSIVE StringifyMembers(_, _)
Stringify(x) ==
  CASE x.t = "null" -> <<Tok("null")>>
    [] x.t = "bool" -> <<Tok(IF x.v THEN "true" ELSE "false")>>
    [] x.t = "num" -> <<NumTok(x.v)>>
    [] x.t = "str" -> <<StrTok(x.v)>>
    [] x.t = "arr" -> <<Tok("[")>> \o StringifyElements(x.v) \o <<Tok("]")>>
    [] x.t = "obj" ->
         <<Tok("{")>> \o StringifyMembers(x.v, SetToSeq(DOMAIN x.v)) \o <<Tok("}")>>
StringifyElements(a) ==
  IF a = <<>> THEN <<>>
  ELSE IF Len(a) = 1 THEN Stringify(a[1])
  ELSE Stringify(a[1]) \o <<Tok(",")>> \o StringifyElements(Tail(a))
StringifyMembers(o, keys) ==
  IF keys = <<>> THEN <<>>
  ELSE LET m == <<StrTok(keys[1]), Tok(":")>> \o Stringify(o[keys[1]])
       IN IF Len(keys) = 1 THEN m
          ELSE m \o <<Tok(",")>> \o StringifyMembers(o, Tail(keys))

\* JSON.parse: recursive descent over the tokens.  A result is
\* [ok, val, rest]; ok = FALSE stands for the SyntaxError.
ParseFail == [ok |-> FALSE, val |-> Undefined, rest |-> <<>>]
ParseOk(val, rest) == [ok |-> TRUE, val |-> val, rest |-> rest]

RECURSIVE ParseValue(_)
RECURSIVE ParseElements(_, _)
RECURSIVE ParseMembers(_, _)
ParseValue(ts) ==
  IF ts = <<>> THEN ParseFail
  ELSE LET h == Head(ts)
           r == Tail(ts)
       IN CASE h.k = "null" -> ParseOk(Null, r)
            [] h.k = "true" -> ParseOk(Bool(TRUE), r)
            [] h.k = "false" -> ParseOk(Bool(FALSE), r)
            [] h.k = "num" -> ParseOk(Num(h.n), r)
            [] h.k = "str" -> ParseOk(Str(h.s), r)
            [] h.k = "[" ->
                 IF r # <<>> /\ Head(r).k = "]" THEN ParseOk(Arr(<<>>), Tail(r))
                 ELSE ParseElements(r, <<>>)
            [] h.k = "{" ->
                 IF r # <<>> /\ Head(r).k = "}" THEN ParseOk(Obj(<<>>), Tail(r))
                 ELSE ParseMembers(r, <<>>)
            [] OTHER -> ParseFail
ParseElements(ts, acc) ==
  LET e == ParseValue(ts)
  IN IF ~e.ok \/ e.rest = <<>> THEN ParseFail
     ELSE IF Head(e.rest).k = "," THEN ParseElements(Tail(e.rest), Append(acc, e.val))
     ELSE IF Head(e.rest).k = "]" THEN ParseOk(Arr(Append(acc, e.val)), Tail(e.rest))
     ELSE ParseFail
ParseMembers(ts, acc) ==
  IF Len(ts) < 3 \/ ts[1].k # "str" \/ ts[2].k # ":" THEN ParseFail
  ELSE LET key == ts[1].s
           e == ParseValue(SubSeq(ts, 3, Len(ts)))
           next == [k \in (DOMAIN acc) \cup {key} |-> IF k = key THEN e.val ELSE acc[k]]
       IN IF ~e.ok \/ e.rest = <<>> THEN ParseFail
          ELSE IF Head(e.rest).k = "," THEN ParseMembers(Tail(e.rest), next)
          ELSE IF Head(e.rest).k = "}" THEN ParseOk(Obj(next), Tail(e.rest))
          ELSE ParseFail

JSONParse(ts) ==
  LET r == ParseValue(ts)
  IN IF r.ok /\ r.rest = <<>> THEN [ok |-> TRUE, val |-> r.val]
     ELSE [ok |-> FALSE, val |-> Undefined]

\* -------------------------------------------------- property access, String
\* row[key]: a TypeError on null and undefined, undefined on a primitive or
\* on an object without the property.
Get(row, key) ==
  CASE row.t \in {"null", "undefined"} -> [threw |-> TRUE, val |-> Undefined]
    [] row.t = "obj" ->
         [threw |-> FALSE, val |-> IF key \in DOMAIN row.v THEN row.v[key] ELSE Undefined]
    [] OTHER -> [threw |-> FALSE, val |-> Undefined]

\* String(x)
RECURSIVE ToStr(_)
RECURSIVE JoinElements(_)
ToStr(x) ==
  CASE x.t = "undefined" -> UndefinedString
    [] x.t = "null" -> NullString
    [] x.t = "bool" -> IF x.v THEN TrueString ELSE FalseString
    [] x.t = "num" -> IntToString(x.v)
    [] x.t = "str" -> x.v
    [] x.t = "arr" -> JoinElements(x.v)
    [] x.t = "obj" ->
         <<"[", "o", "b", "j", "e", "c", "t", " ", "O", "b", "j", "e", "c", "t", "]">>
JoinElements(a) ==
  IF a = <<>> THEN <<>>
  ELSE LET e == IF a[1].t \in {"null", "undefined"} THEN <<>> ELSE ToStr(a[1])
       IN IF Len(a) = 1 THEN e ELSE e \o <<",">> \o JoinElements(Tail(a))

\* ------------------------------------------------------------- amounts
\* str.replace(/[^0-9.]/g, '')
StripNonNumeric(s) == SelectSeq(s, LAMBDA c : c \in DigitSet \cup {"."})

RECURSIVE DigitPrefix(_)
DigitPrefix(s) ==
  IF s = <<>> \/ Head(s) \notin DigitSet THEN <<>>
  ELSE <<Head(s)>> \o DigitPrefix(Tail(s))

\* parseFloat of a string of digits and dots: the longest prefix that is a
\* decimal literal.  The value is exact: dollars and cents (the inputs carry
\* at most two decimals).  nan = TRUE is NaN.
ParseFloat(s) ==
  LET ip == DigitPrefix(s)
      after == SubSeq(s, Len(ip) + 1, Len(s))
      fp == IF after # <<>> /\ Head(after) = "." THEN DigitPrefix(Tail(after)) ELSE <<>>
      f2 == SubSeq(fp \o <<"0", "0">>, 1, 2)
  IN IF ip = <<>> /\ fp = <<>> THEN [nan |-> TRUE, dollars |-> 0, cents |-> 0]
     ELSE [nan |-> FALSE, dollars |-> DigitsToInt(ip), cents |-> DigitsToInt(f2)]

\* A number of millions, exact to 8 decimals: hi + lo / 10^8, 0 <= lo < 10^8.
Zero == [hi |-> 0, lo |-> 0]
\* amount / 1000000
InMillions(a) ==
  [hi |-> a.dollars \div 1000000, lo |-> (a.dollars % 1000000) * 100 + a.cents]
Plus(p, q) ==
  [hi |-> p.hi + q.hi + ((p.lo + q.lo) \div 100000000), lo |-> (p.lo + q.lo) % 100000000]
\* parseFloat(x.toFixed(2)): the nearest multiple of 0.01, the larger one on
\* a tie; the result is counted in hundredths.
ToFixed2(p) == p.hi * 100 + ((p.lo + 500000) \div 1000000)

\* --------------------------------------------------------------- dates
RECURSIVE SplitOn(_, _)
SplitOn(s, sep) ==
  IF \A i \in 1..Len(s) : s[i] # sep THEN <<s>>
  ELSE LET i == CHOOSE j \in 1..Len(s) : s[j] = sep /\ \A k \in 1..(j - 1) : s[k] # sep
       IN <<SubSeq(s, 1, i - 1)>> \o SplitOn(SubSeq(s, i + 1, Len(s)), sep)

IsMDY(s) ==
  LET p == SplitOn(s, "/")
  IN /\ Len(p) = 3
     /\ \A i \in 1..3 : IsDigits(p[i])
     /\ Len(p[1]) \in 1..2 /\ Len(p[2]) \in 1..2 /\ Len(p[3]) = 4
     /\ DigitsToInt(p[1]) \in 1..12
     /\ DigitsToInt(p[2]) \in 1..31

\* new Date(dateStr).getFullYear() for the two shapes of date string the
\* model feeds: M/D/YYYY (a local-time date, of year YYYY whatever the zone)
\* and a string without any digit (Invalid Date, whose year is NaN).
GetFullYear(s) ==
  CASE IsMDY(s) -> [nan |-> FALSE, n |-> DigitsToInt(SplitOn(s, "/")[3])]
    [] \A i \in 1..Len(s) : s[i] \notin DigitSet -> [nan |-> TRUE, n |-> 0]

\* Number.prototype.toString
YearToString(y) == IF y.nan THEN NaNString ELSE IntToString(y.n)

\* a.localeCompare(b) < 0, for strings of digits and letters: digits collate
\* before letters, a shorter string before its extensions.
CharRank(c) == IF c \in DigitSet THEN DigitVal(c) ELSE IF c = "a" THEN 10 ELSE 11
RECURSIVE LocaleLess(_, _)
LocaleLess(a, b) ==
  IF b = <<>> THEN FALSE
  ELSE IF a = <<>> THEN TRUE
  ELSE IF CharRank(Head(a)) # CharRank(Head(b)) THEN CharRank(Head(a)) < CharRank(Head(b))
  ELSE LocaleLess(Tail(a), Tail(b))

\* ------------------------------------------------------------ CompanyModal
PricePoint(name, price) ==
  Obj([k \in {KeyName, KeyPrice} |-> IF k = KeyName THEN Str(name) ELSE Num(price)])
\* an empty placeholder series
mockPriceHistory_Empty == Arr(<<>>)

\* const mockPriceHistory = [...]
mockPriceHistory ==
  Arr(<<PricePoint(<<"Q", "1", " ", "'", "2", "3">>, 110),
        PricePoint(<<"Q", "2", " ", "'", "2", "3">>, 125),
        PricePoint(<<"Q", "3", " ", "'", "2", "3">>, 120),
        PricePoint(<<"Q", "4", " ", "'", "2", "3">>, 140),
        PricePoint(<<"Q", "1", " ", "'", "2", "4">>, 155),
        PricePoint(<<"Q", "2", " ", "'", "2", "4">>, 150)>>)

\* parseJSON that treats an empty array like a missing one
parseJSON_EmptyIsFallback(jsonString, fallback) ==
  IF ~Truthy(jsonString) THEN [ret |-> fallback, log |-> <<>>, threw |-> FALSE]
  ELSE LET data == JSONParse(jsonString.v)
       IN IF data.ok
          THEN [ret |-> IF data.val.t = "arr" /\ data.val.v # <<>> THEN data.val ELSE fallback,
                log |-> <<>>, threw |-> FALSE]
          ELSE [ret |-> fallback, log |-> <<jsonString>>, threw |-> FALSE]

\* parseJSON without its try/catch
parseJSON_NoCatch(jsonString, fallback) ==
  IF ~Truthy(jsonString) THEN [ret |-> fallback, log |-> <<>>, threw |-> FALSE]
  ELSE LET data == JSONParse(jsonString.v)
       IN IF data.ok
          THEN [ret |-> IF data.val.t = "arr" THEN data.val ELSE fallback,
                log |-> <<>>, threw |-> FALSE]
          ELSE [ret |-> Undefined, log |-> <<>>, threw |-> TRUE]

\* parseJSON without the Array.isArray test
parseJSON_NoShapeCheck(jsonString, fallback) ==
  IF ~Truthy(jsonString) THEN [ret |-> fallback, log |-> <<>>, threw |-> FALSE]
  ELSE LET data == JSONParse(jsonString.v)
       IN IF data.ok THEN [ret |-> data.val, log |-> <<>>, threw |-> FALSE]
          ELSE [ret |-> fallback, log |-> <<jsonString>>, threw |-> FALSE]

\* The result is [ret, log, threw]: the value returned, the console.error
\* calls made, and whether an exception left the function.
parseJSON(jsonString, fallback) ==
  IF ~Truthy(jsonString) THEN [ret |-> fallback, log |-> <<>>, threw |-> FALSE]
  ELSE LET data == JSONParse(jsonString.v)
       IN IF data.ok
          THEN [ret |-> IF data.val.t = "arr" THEN data.val ELSE fallback,
                log |-> <<>>, threw |-> FALSE]
          ELSE [ret |-> fallback, log |-> <<jsonString>>, threw |-> FALSE]

\* a test that ignores the case of the label
IsTotalsRow_IgnoreCase(row) ==
  LET c == Get(row, KeyShareClass)
  IN [threw |-> c.threw,
      val |-> ~c.threw /\ c.val \in {Str(TotalsLabel), Str(<<"t", "o", "t", "a", "l", "s">>)}]

\* row => row['Share Class'] === 'Totals'
IsTotalsRow(row) ==
  LET c == Get(row, KeyShareClass)
  IN [threw |-> c.threw, val |-> ~c.threw /\ c.val = Str(TotalsLabel)]

\* a filter that keeps every row
IsRegularRow_KeepAll(row) ==
  [threw |-> Get(row, KeyShareClass).threw, val |-> TRUE]

\* a filter that also drops the rows without a 'Share Class'
IsRegularRow_DropUnlabelled(row) ==
  LET c == Get(row, KeyShareClass)
  IN [threw |-> c.threw, val |-> ~c.threw /\ Truthy(c.val) /\ c.val # Str(TotalsLabel)]

\* row => row['Share Class'] !== 'Totals'
IsRegularRow(row) ==
  LET c == Get(row, KeyShareClass)
  IN [threw |-> c.threw, val |-> ~c.threw /\ c.val # Str(TotalsLabel)]

\* a search that returns the last match
RECURSIVE FindTotals_Last(_)
FindTotals_Last(rows) ==
  IF rows = <<>> THEN [threw |-> FALSE, val |-> Undefined]
  ELSE LET c == IsTotalsRow(rows[Len(rows)])
       IN IF c.threw THEN [threw |-> TRUE, val |-> Undefined]
          ELSE IF c.val THEN [threw |-> FALSE, val |-> rows[Len(rows)]]
          ELSE FindTotals_Last(SubSeq(rows, 1, Len(rows) - 1))

\* rows.find(...)
RECURSIVE FindTotals(_)
FindTotals(rows) ==
  IF rows = <<>> THEN [threw |-> FALSE, val |-> Undefined]
  ELSE LET c == IsTotalsRow(Head(rows))
       IN IF c.threw THEN [threw |-> TRUE, val |-> Undefined]
          ELSE IF c.val THEN [threw |-> FALSE, val |-> Head(rows)]
          ELSE FindTotals(Tail(rows))

\* a filter that returns the kept rows last to first
RECURSIVE FilterRegular_Reversed(_)
FilterRegular_Reversed(rows) ==
  IF rows = <<>> THEN [threw |-> FALSE, val |-> <<>>]
  ELSE LET c == IsRegularRow(Head(rows))
       IN IF c.threw THEN [threw |-> TRUE, val |-> <<>>]
          ELSE LET r == FilterRegular_Reversed(Tail(rows))
               IN IF r.threw THEN r
                  ELSE IF c.val THEN [threw |-> FALSE, val |-> r.val \o <<Head(rows)>>]
                  ELSE r

\* rows.filter(...)
RECURSIVE FilterRegular(_)
FilterRegular(rows) ==
  IF rows = <<>> THEN [threw |-> FALSE, val |-> <<>>]
  ELSE LET c == IsRegularRow(Head(rows))
       IN IF c.threw THEN [threw |-> TRUE, val |-> <<>>]
          ELSE LET r == FilterRegular(Tail(rows))
               IN IF r.threw THEN r
                  ELSE IF c.val THEN [threw |-> FALSE, val |-> <<Head(rows)>> \o r.val]
                  ELSE r

\* data.filter(round => round['Date of Financing'])
HasDate(round) == Truthy(Get(round, KeyDate).val)

\* byYear is an object keyed by the year string: kept as the sequence of its
\* properties [year, amount] in the order of their creation.
AccHas(acc, year) == \E i \in 1..Len(acc) : acc[i].year = year
\* acc[year] || 0
AccGet(acc, year) ==
  IF AccHas(acc, year) THEN acc[CHOOSE i \in 1..Len(acc) : acc[i].year = year].amount
  ELSE Zero
\* acc[year] = amount
AccPut(acc, year, amount) ==
  IF AccHas(acc, year)
  THEN [i \in 1..Len(acc) |-> IF acc[i].year = year THEN [year |-> year, amount |-> amount]
                                 ELSE acc[i]]
  ELSE Append(acc, [year |-> year, amount |-> amount])

\* a reducer that assigns instead of adding
ReduceStep_Overwrite(acc, round) ==
  LET dateStr == Get(round, KeyDate).val
      year == YearToString(GetFullYear(dateStr.v))
      amount == ParseFloat(StripNonNumeric(ToStr(Get(round, KeySize).val)))
  IN IF year # <<>> /\ ~amount.nan
     THEN AccPut(acc, year, InMillions(amount))
     ELSE acc

\* a reducer that rounds every addend to two decimals
ReduceStep_RoundEach(acc, round) ==
  LET dateStr == Get(round, KeyDate).val
      year == YearToString(GetFullYear(dateStr.v))
      amount == ParseFloat(StripNonNumeric(ToStr(Get(round, KeySize).val)))
      h == ToFixed2(InMillions(amount))
  IN IF year # <<>> /\ ~amount.nan
     THEN AccPut(acc, year, Plus(AccGet(acc, year), [hi |-> h \div 100, lo |-> (h % 100) * 1000000]))
     ELSE acc

\* a reducer that adds the amount of a round twice
ReduceStep_CountTwice(acc, round) ==
  LET dateStr == Get(round, KeyDate).val
      year == YearToString(GetFullYear(dateStr.v))
      amount == ParseFloat(StripNonNumeric(ToStr(Get(round, KeySize).val)))
      twice == Plus(InMillions(amount), InMillions(amount))
  IN IF year # <<>> /\ ~amount.nan
     THEN AccPut(acc, year, Plus(AccGet(acc, year), twice))
     ELSE acc

\* the reducer of fundingHistoryChart
ReduceStep(acc, round) ==
  LET dateStr == Get(round, KeyDate).val
      year == YearToString(GetFullYear(dateStr.v))
      amount == ParseFloat(StripNonNumeric(ToStr(Get(round, KeySize).val)))
  IN IF year # <<>> /\ ~amount.nan
     THEN AccPut(acc, year, Plus(AccGet(acc, year), InMillions(amount)))
     ELSE acc

RECURSIVE Reduce(_, _)
Reduce(rows, acc) ==
  IF rows = <<>> THEN acc ELSE Reduce(Tail(rows), ReduceStep(acc, Head(rows)))

\* Object.entries(byYear): the integer-like keys in ascending numeric order,
\* then the other keys in the order of their creation.
IsIndexKey(k) == k # <<>> /\ IsDigits(k) /\ Len(k) <= 9 /\ (Len(k) = 1 \/ k[1] # "0")
RECURSIVE AscendingKeys(_)
AscendingKeys(es) ==
  IF es = <<>> THEN <<>>
  ELSE LET m == CHOOSE i \in 1..Len(es) :
                  \A j \in 1..Len(es) : DigitsToInt(es[i].year) <= DigitsToInt(es[j].year)
       IN <<es[m]>> \o AscendingKeys(SubSeq(es, 1, m - 1) \o SubSeq(es, m + 1, Len(es)))
ObjectEntries(acc) ==
  AscendingKeys(SelectSeq(acc, LAMBDA e : IsIndexKey(e.year)))
    \o SelectSeq(acc, LAMBDA e : ~IsIndexKey(e.year))

\* the comparator with its operands exchanged
YearBefore_Reversed(a, b) == LocaleLess(b.year, a.year)

\* the comparator of the sort: (a, b) => a.year.localeCompare(b.year)
YearBefore(a, b) == LocaleLess(a.year, b.year)

\* Array.prototype.sort (stable), by insertion
InsertSorted(sorted, e) ==
  LET before == {i \in 1..Len(sorted) : YearBefore(e, sorted[i])}
      at == IF before = {} THEN Len(sorted) + 1
            ELSE CHOOSE i \in before : \A j \in before : i <= j
  IN SubSeq(sorted, 1, at - 1) \o <<e>> \o SubSeq(sorted, at, Len(sorted))
RECURSIVE SortByYear(_)
SortByYear(es) ==
  IF es = <<>> THEN <<>>
  ELSE InsertSorted(SortByYear(SubSeq(es, 1, Len(es) - 1)), es[Len(es)])

\* ([year, amount]) => ({ year, amount: parseFloat(amount.toFixed(2)) })
ChartPoint(e) == [year |-> e.year, amount |-> ToFixed2(e.amount)]

\* an aggregation that returns one point without a year when no year has
\* an amount
fundingHistoryChartOf_PointIfEmpty(rows) ==
  LET data == SelectSeq(rows, HasDate)
      byYear == Reduce(data, <<>>)
      entries == ObjectEntries(byYear)
      chartData == SortByYear([i \in 1..Len(entries) |-> ChartPoint(entries[i])])
  IN IF Len(chartData) > 0 THEN chartData ELSE <<[year |-> <<>>, amount |-> 0]>>

\* the function expression of fundingHistoryChart, applied to regularRows
fundingHistoryChartOf(rows) ==
  LET data == SelectSeq(rows, HasDate)
      byYear == Reduce(data, <<>>)
      entries == ObjectEntries(byYear)
      chartData == SortByYear([i \in 1..Len(entries) |-> ChartPoint(entries[i])])
  IN IF Len(chartData) > 0 THEN chartData ELSE <<>>

\* The body of CompanyModal up to its return statement.  status is "threw"
\* when an exception leaves the component; the locals not reached stay
\* Undefined.
NotRendered ==
  [status |-> "idle", priceHistory |-> Undefined, fundingHistoryTable |-> Undefined,
   totalsRow |-> Undefined, regularRows |-> Undefined, fundingHistoryChart |-> Undefined,
   log |-> <<>>]
CompanyModalBody(c) ==
  LET ph == parseJSON(c.price_history, mockPriceHistory)
      fh == parseJSON(c.funding_history, Arr(<<>>))
      isArr == fh.ret.t = "arr"
      tr == IF isArr THEN FindTotals(fh.ret.v) ELSE [threw |-> FALSE, val |-> Null]
      rr == IF isArr THEN FilterRegular(fh.ret.v) ELSE [threw |-> FALSE, val |-> <<>>]
  IN IF ph.threw THEN [NotRendered EXCEPT !.status = "threw", !.log = ph.log]
     ELSE IF fh.threw
       THEN [NotRendered EXCEPT !.status = "threw", !.log = ph.log \o fh.log,
                                !.priceHistory = ph.ret]
     ELSE IF tr.threw
       THEN [NotRendered EXCEPT !.status = "threw", !.log = ph.log \o fh.log,
                                !.priceHistory = ph.ret, !.fundingHistoryTable = fh.ret]
     ELSE IF rr.threw
       THEN [NotRendered EXCEPT !.status = "threw", !.log = ph.log \o fh.log,
                                !.priceHistory = ph.ret, !.fundingHistoryTable = fh.ret,
                                !.totalsRow = tr.val]
     ELSE [status |-> "rendered", priceHistory |-> ph.ret, fundingHistoryTable |-> fh.ret,
           totalsRow |-> tr.val, regularRows |-> Arr(rr.val),
           fundingHistoryChart |-> fundingHistoryChartOf(rr.val),
           log |-> ph.log \o fh.log]

\* ------------------------------------------------------------------ state
VARIABLES
  \* App
  results,            \* null or the array of companies of the last response
  isLoading,
  error,              \* '' or the message shown
  selectedCompany,    \* null or the company shown in the modal
  inflight,           \* the handleSearch calls awaiting axios.get
  started,            \* number of handleSearch calls so far
  shownRequest,       \* the call whose response.data is in results, 0 if none
  \* AdvancedSearch
  filters,            \* the five fields of the form
  \* CompanyModal
  company,            \* the company prop
  encoded,            \* what the backend put in the two history fields
  modalStatus,        \* "idle", "rendered" or "threw"
  renders,            \* number of times the component body ran
  priceHistory,
  fundingHistoryTable,
  totalsRow,
  regularRows,
  fundingHistoryChart,
  console             \* the console.error calls

appVars == <<results, isLoading, error, selectedCompany, inflight, started, shownRequest,
             filters>>
modalVars == <<company, encoded, modalStatus, renders, priceHistory, fundingHistoryTable,
               totalsRow, regularRows, fundingHistoryChart, console>>
vars == <<appVars, modalVars>>

\* ----------------------------------------------------------- modal inputs
D_1_1_2020 == <<"1", "/", "1", "/", "2", "0", "2", "0">>
D_3_1_2021 == <<"3", "/", "1", "/", "2", "0", "2", "1">>
D_7_22_2021 == <<"7", "/", "2", "2", "/", "2", "0", "2", "1">>
NotADate == <<"n", "o", "t", "-", "a", "-", "d", "a", "t", "e">>
A_205900014_30 ==
  <<"$", "2", "0", "5", ",", "9", "0", "0", ",", "0", "1", "4", ".", "3", "0">>
A_94099985_70 == <<"$", "9", "4", ",", "0", "9", "9", ",", "9", "8", "5", ".", "7", "0">>
A_1000000 == <<"$", "1", ",", "0", "0", "0", ",", "0", "0", "0">>
A_4000 == <<"$", "4", ",", "0", "0", "0">>
A_5 == <<"$", "5">>
NotAvailable == <<"N", "/", "A">>
\* an amount written with dots between the thousands
A_Dotted == <<"$", "1", ".", "0", "0", "0", ".", "0", "0", "0">>
SeedLabel == <<"S", "e", "e", "d">>
LowerTotalsLabel == <<"t", "o", "t", "a", "l", "s">>

\* a row with the properties that are given (Undefined: property absent)
Entry(date, shareClass, size) ==
  LET given == {k \in {KeyDate, KeyShareClass, KeySize} :
                  (IF k = KeyDate THEN date ELSE IF k = KeyShareClass THEN shareClass ELSE size)
                    # Undefined}
  IN Obj([k \in given |->
            IF k = KeyDate THEN date ELSE IF k = KeyShareClass THEN shareClass ELSE size])

\* the two rows of the documented scenario, and the year strings they give
SeedRound2020 == Entry(Str(D_1_1_2020), Str(SeedLabel), Str(A_1000000))
TotalsSummary == Entry(Undefined, Str(TotalsLabel), Str(A_1000000))
Year2020 == <<"2", "0", "2", "0">>
Year2021 == <<"2", "0", "2", "1">>

FundingEntries ==
  { SeedRound2020,
    TotalsSummary,
    Entry(Str(D_7_22_2021), Str(TotalsLabel), Str(A_205900014_30)),
    Entry(Str(D_7_22_2021), Str(SeedLabel), Str(A_205900014_30)),
    Entry(Str(D_3_1_2021), Str(SeedLabel), Str(A_94099985_70)),
    Entry(Str(D_3_1_2021), Undefined, Str(A_4000)),
    Entry(Str(D_1_1_2020), Str(LowerTotalsLabel), Str(A_4000)),
    Entry(Str(NotADate), Str(SeedLabel), Str(A_5)),
    Entry(Str(<<>>), Str(SeedLabel), Str(A_5)),
    Entry(Str(D_1_1_2020), Str(SeedLabel), Str(NotAvailable)),
    Entry(Str(D_3_1_2021), Str(SeedLabel), Undefined),
    Entry(Str(D_3_1_2021), Str(SeedLabel), Str(A_Dotted)),
    Null,
    Num(5) }

RECURSIVE SeqsUpTo(_, _)
SeqsUpTo(S, n) ==
  IF n = 0 THEN {<<>>}
  ELSE LET shorter == SeqsUpTo(S, n - 1)
       IN shorter \cup {Append(q, e) : q \in {r \in shorter : Len(r) = n - 1}, e \in S}

FundingPayloads ==
  {Arr(rows) : rows \in SeqsUpTo(FundingEntries, MaxRows)}
    \cup {SeedRound2020, Num(5), Str(SeedLabel),
          Bool(TRUE), Null}
PricePayloads ==
  {Arr(<<>>), Arr(<<PricePoint(<<"Q", "1">>, 10), PricePoint(<<"Q", "2">>, 12)>>),
   PricePoint(<<"Q", "1">>, 10)}

\* How a field of the record came to be: not set, null, the empty string, or
\* the JSON text of a payload, possibly damaged on the way.
Damages == {"none", "truncated", "trailingComma"}
Source(kind, payload, damage) == [kind |-> kind, payload |-> payload, damage |-> damage]
SourcesOf(payloads) ==
  {Source(k, Null, "none") : k \in {"absent", "null", "empty"}}
    \cup {Source("json", p, d) : p \in payloads, d \in Damages}
Damage(d, ts) ==
  CASE d = "none" -> ts
    [] d = "truncated" -> SubSeq(ts, 1, Len(ts) - 1)
    [] d = "trailingComma" -> SubSeq(ts, 1, Len(ts) - 1) \o <<Tok(","), ts[Len(ts)]>>
RawOf(src) ==
  CASE src.kind = "absent" -> Undefined
    [] src.kind = "null" -> Null
    [] src.kind = "empty" -> Text(<<>>)
    [] src.kind = "json" -> Text(Damage(src.damage, Stringify(src.payload)))

\* -------------------------------------------------------------------- App
API_URL == "http://localhost:8000"
FetchError == "Failed to fetch results. Please check if the backend is running."
NoCompaniesFound == "No companies found. Try a different search."
Queries == {"", "fintech"}
FilterNames == {"name", "sector", "valuation", "website", "investors"}
FilterValues == {"", "x"}
\* the states of the form: the first two fields are modelled as varying
FilterInputs ==
  {[f \in FilterNames |-> IF f = "name" THEN a ELSE IF f = "sector" THEN b ELSE ""] :
     a \in FilterValues, b \in FilterValues}
\* a company of response.data, with the scalar fields the views below read
AppCompany(name, sector, overview, summary, nearing_liquidity_event) ==
  [name |-> name, sector |-> sector, overview |-> overview, summary |-> summary,
   nearing_liquidity_event |-> nearing_liquidity_event,
   price_history |-> Undefined, funding_history |-> Undefined]
Acme ==
  AppCompany(Str(<<"A", "c", "m", "e">>), Str(<<"A", "I">>), Str(<<"o">>), Str(<<"s">>),
             Str(<<"Y", "e", "s">>))
\* a company with nothing but its name
Bolt == AppCompany(Str(<<"B", "o", "l", "t">>), Undefined, Str(<<>>), Null, Undefined)
\* a company with an empty name
Nameless == AppCompany(Str(<<>>), Str(<<"A", "I">>), Str(<<"o">>), Undefined, Str(<<"N", "o">>))
ResultLists == {<<>>, <<Acme>>, <<Acme, Bolt>>, <<Nameless>>}

AppInit ==
  /\ results = Null
  /\ isLoading = FALSE
  /\ error = ""
  /\ selectedCompany = Null
  /\ inflight = {}
  /\ started = 0
  /\ shownRequest = 0
  /\ filters = [f \in FilterNames |-> ""]

ModalIdle ==
  /\ modalStatus = "idle"
  /\ renders = 0
  /\ priceHistory = Undefined
  /\ fundingHistoryTable = Undefined
  /\ totalsRow = Undefined
  /\ regularRows = Undefined
  /\ fundingHistoryChart = Undefined
  /\ console = <<>>

Init ==
  /\ AppInit
  /\ company = Null
  /\ encoded = [funding |-> Source("absent", Null, "none"),
                price |-> Source("absent", Null, "none")]
  /\ ModalIdle

\* a handleSearch that leaves the modal as it is
handleSearch_KeepModal(url, params) ==
  /\ started < MaxSearches
  /\ isLoading' = TRUE
  /\ error' = ""
  /\ results' = Null
  /\ started' = started + 1
  /\ inflight' = inflight \cup {[id |-> started + 1, url |-> url, params |-> params]}
  /\ shownRequest' = 0
  /\ UNCHANGED <<selectedCompany, filters, modalVars>>

\* handleSearch up to its await: the state is reset and the request leaves
handleSearch(url, params) ==
  /\ started < MaxSearches
  /\ isLoading' = TRUE
  /\ error' = ""
  /\ results' = Null
  /\ selectedCompany' = Null
  /\ started' = started + 1
  /\ inflight' = inflight \cup {[id |-> started + 1, url |-> url, params |-> params]}
  /\ shownRequest' = 0
  /\ UNCHANGED <<filters, modalVars>>

\* SearchBar.handleSubmit calls onSearch(query)
handleSemanticSearch(query) ==
  IF query = "" THEN UNCHANGED vars
  ELSE handleSearch(API_URL \o "/search", [q |-> query, limit |-> 50])

\* AdvancedSearch.handleChange, from one of the inputs of the form
handleChange ==
  \E name \in {"name", "sector"}, value \in FilterValues :
    /\ value # filters[name]
    /\ filters' = [filters EXCEPT ![name] = value]
    /\ UNCHANGED <<results, isLoading, error, selectedCompany, inflight, started, shownRequest,
                   modalVars>>

\* a reduce that copies every entry
ValidFilters_KeepAll(given) == given

\* the filters with a truthy value
ValidFilters(given) ==
  [f \in {g \in DOMAIN given : given[g] # ""} |-> given[f]]

\* a handleAdvancedSearch without the return on no valid filter
handleAdvancedSearch_NoReturn ==
  handleSearch(API_URL \o "/advanced-search", ValidFilters(filters))

\* AdvancedSearch.handleSubmit calls onSearch(filters)
handleAdvancedSearch ==
  LET validFilters == ValidFilters(filters)
  IN IF DOMAIN validFilters = {} THEN UNCHANGED vars
     ELSE handleSearch(API_URL \o "/advanced-search", validFilters)

\* a success path that does not reach setIsLoading(false)
SearchSucceeds_KeepLoading ==
  \E r \in inflight, data \in ResultLists :
    /\ results' = Arr(data)
    /\ inflight' = inflight \ {r}
    /\ shownRequest' = r.id
    /\ UNCHANGED <<isLoading, error, selectedCompany, started, filters, modalVars>>

\* handleSearch after its await, the request fulfilled: try, then finally
SearchSucceeds ==
  \E r \in inflight, data \in ResultLists :
    /\ results' = Arr(data)
    /\ isLoading' = FALSE
    /\ inflight' = inflight \ {r}
    /\ shownRequest' = r.id
    /\ UNCHANGED <<error, selectedCompany, started, filters, modalVars>>

\* a catch block that leaves the request pending again
SearchFails_Retry ==
  \E r \in inflight :
    /\ error' = FetchError
    /\ isLoading' = FALSE
    /\ UNCHANGED <<inflight, results, selectedCompany, started, shownRequest, filters,
                   modalVars>>

\* handleSearch after its await, the request rejected: catch, then finally
SearchFails ==
  \E r \in inflight :
    /\ error' = FetchError
    /\ isLoading' = FALSE
    /\ inflight' = inflight \ {r}
    /\ UNCHANGED <<results, selectedCompany, started, shownRequest, filters, modalVars>>

\* onCompanySelect, from a row of the rendered ResultsList
onCompanySelect ==
  /\ Truthy(results)
  /\ \E i \in 1..Len(results.v) : selectedCompany' = results.v[i]
  /\ UNCHANGED <<results, isLoading, error, inflight, started, shownRequest, filters,
                 modalVars>>

\* an onClose that also clears the results
onClose_ClearResults ==
  /\ selectedCompany # Null
  /\ selectedCompany' = Null
  /\ results' = Null
  /\ UNCHANGED <<isLoading, error, inflight, started, shownRequest, filters, modalVars>>

\* onClose, from the rendered CompanyModal
onClose ==
  /\ selectedCompany # Null
  /\ selectedCompany' = Null
  /\ UNCHANGED <<results, isLoading, error, inflight, started, shownRequest, filters,
                 modalVars>>

NA == Str(<<"N", "/", "A">>)
\* value || 'N/A'
OrNA(value) == IF Truthy(value) THEN value ELSE NA

\* const displayStatus = eventStatus || 'No'
LiquidityEventTag(eventStatus) == IF Truthy(eventStatus) THEN eventStatus ELSE Str(<<"N", "o">>)

\* the cells of one row of the table, by field
ResultsRow(c) ==
  [name |-> c.name,
   sector |-> OrNA(c.sector),
   overview |-> OrNA(c.overview),
   nearing_liquidity_event |-> LiquidityEventTag(c.nearing_liquidity_event)]

\* a list that shows the table for every array
ResultsList_NoEmptyState(companies) ==
  [text |-> "", rows |-> [i \in 1..Len(companies.v) |-> ResultsRow(companies.v[i])]]

\* ResultsList: the message when companies is empty, the table otherwise
ResultsList(companies) ==
  IF Len(companies.v) = 0 THEN [text |-> NoCompaniesFound, rows |-> <<>>]
  ELSE [text |-> "", rows |-> [i \in 1..Len(companies.v) |-> ResultsRow(companies.v[i])]]

\* <StatCard value={...}/>: value || 'N/A'
StatCard(value) == OrNA(value)

\* the scalar fields in the header and the details of CompanyModal
ModalScalars(c) ==
  [name |-> OrNA(c.name),
   summary |-> IF Truthy(c.summary) THEN c.summary
               ELSE IF Truthy(c.overview) THEN c.overview
               ELSE Str(<<"N", "o", " ", "s", "u", "m", "m", "a", "r", "y", " ",
                          "a", "v", "a", "i", "l", "a", "b", "l", "e", ".">>),
   sector |-> StatCard(c.sector)]

\* what App renders below the search forms, and the modal
AppView ==
  [loader |-> isLoading,
   error |-> IF error # "" THEN error ELSE Null,
   list |-> IF Truthy(results) THEN ResultsList(results) ELSE Null,
   modal |-> IF selectedCompany # Null THEN ModalScalars(selectedCompany) ELSE Null]

Next ==
  \/ \E query \in Queries : handleSemanticSearch(query)
  \/ handleChange
  \/ handleAdvancedSearch
  \/ SearchSucceeds
  \/ SearchFails
  \/ onCompanySelect
  \/ onClose

Spec == Init /\ [][Next]_vars

\* axios.get settles: every request awaited is eventually fulfilled or rejected
FairSpec == Spec /\ WF_vars(SearchSucceeds \/ SearchFails)

\* ------------------------------------------------- CompanyModal on a record
\* Every funding source with price_history not set, and every price source
\* with each of three funding sources.
ModalInputs ==
  {[funding |-> f, price |-> Source("absent", Null, "none")] : f \in SourcesOf(FundingPayloads)}
    \cup {[funding |-> f, price |-> p] :
            f \in {Source("absent", Null, "none"),
                   Source("json", Arr(<<SeedRound2020>>), "none"),
                   Source("json", Arr(<<Num(5)>>), "truncated")},
            p \in SourcesOf(PricePayloads)}

ModalInit ==
  /\ AppInit
  /\ ModalIdle
  /\ encoded \in ModalInputs
  /\ company = [name |-> "Acme", price_history |-> RawOf(encoded.price),
                funding_history |-> RawOf(encoded.funding)]

\* one run of the component body
CompanyModal ==
  /\ renders < MaxRenders
  /\ LET m == CompanyModalBody(company)
     IN /\ modalStatus' = m.status
        /\ priceHistory' = m.priceHistory
        /\ fundingHistoryTable' = m.fundingHistoryTable
        /\ totalsRow' = m.totalsRow
        /\ regularRows' = m.regularRows
        /\ fundingHistoryChart' = m.fundingHistoryChart
        /\ console' = console \o m.log
  /\ renders' = renders + 1
  /\ UNCHANGED <<company, encoded, appVars>>

ModalNext == CompanyModal

ModalSpec == ModalInit /\ [][ModalNext]_vars

\* ================================================================ properties

\* C1: a row whose 'Share Class' is "Totals" is never one of regularRows and
\* never contributes to fundingHistoryChart (the chart is the chart of the
\* other rows); a Seed round of 1/1/2020 of $1,000,000 with a Totals row of
\* $1,000,000 gives one round, the Totals row apart, and the chart
\* [{2020, 1.00}].
C1_TotalsExcluded ==
  modalStatus = "rendered" =>
    LET labelled(r) ==
          r.t = "obj" /\ KeyShareClass \in DOMAIN r.v /\ r.v[KeyShareClass] = Str(TotalsLabel)
        others == SelectSeq(fundingHistoryTable.v, LAMBDA r : ~labelled(r))
    IN /\ \A i \in 1..Len(regularRows.v) : ~labelled(regularRows.v[i])
       /\ fundingHistoryChart = fundingHistoryChartOf(others)
       /\ encoded.funding = Source("json", Arr(<<SeedRound2020, TotalsSummary>>), "none")
            => /\ regularRows = Arr(<<SeedRound2020>>)
               /\ totalsRow = TotalsSummary
               /\ fundingHistoryChart = <<[year |-> Year2020, amount |-> 100]>>

C1_Witness ==
  /\ modalStatus = "rendered"
  /\ encoded.funding = Source("json", Arr(<<SeedRound2020, TotalsSummary>>), "none")
  /\ totalsRow = TotalsSummary
  /\ Len(regularRows.v) = 1

\* C2: an entry whose date of financing is absent or is not a calendar date
\* creates no bucket and adds to none: every year of the chart is the year
\* of a regular row whose date is a calendar date, and the history
\* [{date "not-a-date", amount "$5"}] gives the empty chart.
C2_UnparseableDateSkipped ==
  modalStatus = "rendered" =>
    /\ \A i \in 1..Len(fundingHistoryChart) :
         \E j \in 1..Len(regularRows.v) :
           LET d == Get(regularRows.v[j], KeyDate).val
           IN /\ d.t = "str"
              /\ IsMDY(d.v)
              /\ fundingHistoryChart[i].year = SplitOn(d.v, "/")[3]
    /\ encoded.funding
         = Source("json", Arr(<<Entry(Str(NotADate), Str(SeedLabel), Str(A_5))>>), "none")
         => fundingHistoryChart = <<>>

\* C3: assembling the view model of a record never throws, whatever the two
\* history fields hold.
C3_NeverThrows == modalStatus # "threw"

\* C4: the results shown are never those of a search older than the one
\* started last.
C4_NoStaleResults == Truthy(results) => shownRequest = started

\* C5: parseJSON returns the decoded array for the text of a JSON array, and
\* the fallback for a field that is not set, null, empty or not valid JSON.
C5_ParseJSON ==
  modalStatus # "idle" =>
    LET intact(src) == src.kind = "json" /\ src.damage = "none" /\ src.payload.t = "arr"
        unusable(src) == src.kind # "json" \/ src.damage # "none"
    IN /\ intact(encoded.price) => priceHistory = encoded.price.payload
       /\ unusable(encoded.price) => priceHistory = mockPriceHistory
       /\ intact(encoded.funding) => fundingHistoryTable = encoded.funding.payload
       /\ unusable(encoded.funding) => fundingHistoryTable = Arr(<<>>)

C5_Witness ==
  /\ modalStatus = "rendered"
  /\ encoded.funding = Source("json", Arr(<<SeedRound2020>>), "none")
  /\ fundingHistoryTable = Arr(<<SeedRound2020>>)
  /\ encoded.price.kind = "json"
  /\ encoded.price.damage = "trailingComma"
  /\ priceHistory = mockPriceHistory

\* C6: a decode failure in parseJSON is recovered in parseJSON: the fallback
\* is returned, the failure is logged with the offending string, and no
\* exception leaves the call.
C6_DecodeFailureRecovered ==
  modalStatus # "idle" =>
    LET fails(src, raw) == src.kind = "json" /\ src.damage # "none" /\ raw.v # <<>>
        logged(raw) == \E i \in 1..Len(console) : console[i] = raw
    IN /\ fails(encoded.price, company.price_history)
            => priceHistory = mockPriceHistory /\ logged(company.price_history)
       /\ fails(encoded.funding, company.funding_history)
            => /\ fundingHistoryTable = Arr(<<>>)
               /\ logged(company.funding_history)
               /\ modalStatus = "rendered"

C6_Witness ==
  /\ modalStatus = "rendered"
  /\ encoded.funding = Source("json", Arr(<<SeedRound2020, TotalsSummary>>), "truncated")
  /\ fundingHistoryTable = Arr(<<>>)
  /\ console = <<company.funding_history>>

\* C7: when the text decodes to a value that is not an array, parseJSON
\* returns the fallback and not the decoded value.
C7_NonArrayIsFallback ==
  modalStatus # "idle" =>
    LET scalar(src) == src.kind = "json" /\ src.damage = "none" /\ src.payload.t # "arr"
    IN /\ scalar(encoded.price) => priceHistory = mockPriceHistory
       /\ scalar(encoded.funding) => fundingHistoryTable = Arr(<<>>)

C7_Witness ==
  /\ modalStatus = "rendered"
  /\ encoded.funding = Source("json", SeedRound2020, "none")
  /\ fundingHistoryTable = Arr(<<>>)
  /\ console = <<>>

\* C8: the chart holds each year at most once, and the amount of a year is
\* the sum of the amounts of all the regular rows of that year (in
\* millions, to two decimals); every year of a counted row has its point.
C8_OnePointPerYear ==
  modalStatus = "rendered" =>
    LET rows == regularRows.v
        counted(r) ==
          /\ Truthy(Get(r, KeyDate).val)
          /\ ~ParseFloat(StripNonNumeric(ToStr(Get(r, KeySize).val))).nan
        yearOf(r) == YearToString(GetFullYear(Get(r, KeyDate).val.v))
        millions(r) == InMillions(ParseFloat(StripNonNumeric(ToStr(Get(r, KeySize).val))))
        RECURSIVE SumOfYear(_, _)
        SumOfYear(k, y) ==
          IF k = 0 THEN Zero
          ELSE IF counted(rows[k]) /\ yearOf(rows[k]) = y
               THEN Plus(SumOfYear(k - 1, y), millions(rows[k]))
               ELSE SumOfYear(k - 1, y)
        chart == fundingHistoryChart
    IN /\ \A i, j \in 1..Len(chart) : chart[i].year = chart[j].year => i = j
       /\ \A i \in 1..Len(chart) :
            chart[i].amount = ToFixed2(SumOfYear(Len(rows), chart[i].year))
       /\ \A k \in 1..Len(rows) :
            counted(rows[k]) => \E i \in 1..Len(chart) : chart[i].year = yearOf(rows[k])

C8_Witness ==
  /\ modalStatus = "rendered"
  /\ regularRows = Arr(<<Entry(Str(D_7_22_2021), Str(SeedLabel), Str(A_205900014_30)),
                         Entry(Str(D_3_1_2021), Str(SeedLabel), Str(A_94099985_70))>>)
  /\ Len(fundingHistoryChart) = 1

\* C9: the amount of a year is the exact sum of the year's amounts, divided
\* by 1,000,000 and rounded to two decimals once: it is the multiple of 0.01
\* nearest to that quotient.  $205,900,014.30 and $94,099,985.70, both of
\* 2021, give the single point {2021, 300.00}.
C9_RoundedOnce ==
  modalStatus = "rendered" =>
    LET rows == regularRows.v
        amount(r) == ParseFloat(StripNonNumeric(ToStr(Get(r, KeySize).val)))
        inYear(r, y) ==
          /\ Truthy(Get(r, KeyDate).val)
          /\ ~amount(r).nan
          /\ YearToString(GetFullYear(Get(r, KeyDate).val.v)) = y
        RECURSIVE Dollars(_, _)
        Dollars(k, y) ==
          IF k = 0 THEN 0
          ELSE Dollars(k - 1, y) + (IF inYear(rows[k], y) THEN amount(rows[k]).dollars ELSE 0)
        RECURSIVE Cents(_, _)
        Cents(k, y) ==
          IF k = 0 THEN 0
          ELSE Cents(k - 1, y) + (IF inYear(rows[k], y) THEN amount(rows[k]).cents ELSE 0)
        \* the year's total, as whole millions and the rest in cents
        whole(y) == (Dollars(Len(rows), y) + (Cents(Len(rows), y) \div 100)) \div 1000000
        rest(y) == ((Dollars(Len(rows), y) + (Cents(Len(rows), y) \div 100)) % 1000000) * 100
                     + (Cents(Len(rows), y) % 100)
        chart == fundingHistoryChart
    IN /\ \A i \in 1..Len(chart) :
            LET y == chart[i].year
                below == whole(y) * 100 + (rest(y) \div 1000000)
            IN chart[i].amount = IF 2 * (rest(y) % 1000000) < 1000000 THEN below ELSE below + 1
       /\ encoded.funding
            = Source("json",
                     Arr(<<Entry(Str(D_7_22_2021), Str(SeedLabel), Str(A_205900014_30)),
                           Entry(Str(D_3_1_2021), Str(SeedLabel), Str(A_94099985_70))>>),
                     "none")
            => fundingHistoryChart = <<[year |-> Year2021, amount |-> 30000]>>

C9_Witness ==
  /\ modalStatus = "rendered"
  /\ regularRows = Arr(<<Entry(Str(D_3_1_2021), Undefined, Str(A_4000)),
                         Entry(Str(D_3_1_2021), Undefined, Str(A_4000))>>)
  /\ fundingHistoryChart = <<[year |-> Year2021, amount |-> 1]>>

\* C10: the chart is in ascending lexicographic order of the year string,
\* whatever the order of the rows of funding_history.
C10_AscendingYears ==
  modalStatus = "rendered" =>
    LET code(c) == IF c \in DigitSet THEN 48 + DigitVal(c) ELSE IF c = "N" THEN 78 ELSE 97
        RECURSIVE LexLess(_, _)
        LexLess(a, b) ==
          IF b = <<>> THEN FALSE
          ELSE IF a = <<>> THEN TRUE
          ELSE IF code(Head(a)) # code(Head(b)) THEN code(Head(a)) < code(Head(b))
          ELSE LexLess(Tail(a), Tail(b))
    IN \A i, j \in 1..Len(fundingHistoryChart) :
         i < j => LexLess(fundingHistoryChart[i].year, fundingHistoryChart[j].year)

C10_Witness ==
  /\ modalStatus = "rendered"
  /\ regularRows = Arr(<<Entry(Str(D_7_22_2021), Str(SeedLabel), Str(A_205900014_30)),
                         SeedRound2020>>)
  /\ fundingHistoryChart = <<[year |-> Year2020, amount |-> 100],
                             [year |-> Year2021, amount |-> 20590]>>

\* C11: the amount of a row is read from 'Total Financing Size' with every
\* character other than a digit or '.' removed, and a row for which what
\* remains is empty or is not a number (a row without the property
\* included) is skipped: the chart is the chart of the other rows.
C11_NonNumericAmountSkipped ==
  modalStatus = "rendered" =>
    LET remaining(r) == StripNonNumeric(ToStr(Get(r, KeySize).val))
        dots(s) == Cardinality({i \in 1..Len(s) : s[i] = "."})
        \* a decimal number: digits with at most one '.', one digit at least
        isNumber(s) == dots(s) <= 1 /\ Len(s) > dots(s)
    IN fundingHistoryChart
         = fundingHistoryChartOf(SelectSeq(regularRows.v, LAMBDA r : isNumber(remaining(r))))

\* C12: the totals row is the first row of funding_history whose 'Share
\* Class' is exactly "Totals", and there is none exactly when no row
\* matches; a row labelled "totals" is a regular row.
C12_TotalsRowIsFirstExactMatch ==
  modalStatus = "rendered" =>
    LET rows == fundingHistoryTable.v
        label(r) == IF r.t = "obj" /\ KeyShareClass \in DOMAIN r.v THEN r.v[KeyShareClass]
                    ELSE Undefined
        m == {i \in 1..Len(rows) : label(rows[i]) = Str(TotalsLabel)}
    IN /\ m = {} <=> totalsRow = Undefined
       /\ m # {} => totalsRow = rows[CHOOSE i \in m : \A j \in m : i <= j]
       /\ \A i \in 1..Len(rows) :
            label(rows[i]) = Str(LowerTotalsLabel)
              => \E k \in 1..Len(regularRows.v) : regularRows.v[k] = rows[i]

C12_Witness ==
  /\ modalStatus = "rendered"
  /\ fundingHistoryTable
       = Arr(<<Entry(Str(D_1_1_2020), Str(LowerTotalsLabel), Str(A_4000)), TotalsSummary>>)
  /\ totalsRow = TotalsSummary
  /\ regularRows = Arr(<<Entry(Str(D_1_1_2020), Str(LowerTotalsLabel), Str(A_4000))>>)

\* C13, as claimed: when several rows are labelled "Totals", every one after
\* the first is one of the regular rows.
C13_LaterTotalsAreRegular ==
  modalStatus = "rendered" =>
    LET rows == fundingHistoryTable.v
        exact(r) == r.t = "obj" /\ KeyShareClass \in DOMAIN r.v
                      /\ r.v[KeyShareClass] = Str(TotalsLabel)
    IN \A i \in 1..Len(rows) :
         (exact(rows[i]) /\ \E j \in 1..(i - 1) : exact(rows[j]))
           => \E k \in 1..Len(regularRows.v) : regularRows.v[k] = rows[i]

\* C13, amended: when several rows are labelled "Totals", the first is the
\* totals row and every later one is dropped: no regular row is labelled
\* "Totals" and the regular rows are as many as the rows not so labelled.
C13_LaterTotalsDropped ==
  modalStatus = "rendered" =>
    LET rows == fundingHistoryTable.v
        exact(r) == r.t = "obj" /\ KeyShareClass \in DOMAIN r.v
                      /\ r.v[KeyShareClass] = Str(TotalsLabel)
        m == {i \in 1..Len(rows) : exact(rows[i])}
    IN Cardinality(m) > 1 =>
         /\ totalsRow = rows[CHOOSE i \in m : \A j \in m : i <= j]
         /\ \A k \in 1..Len(regularRows.v) : ~exact(regularRows.v[k])
         /\ Len(regularRows.v) = Len(rows) - Cardinality(m)

C13_Witness ==
  /\ modalStatus = "rendered"
  /\ fundingHistoryTable
       = Arr(<<TotalsSummary, Entry(Str(D_7_22_2021), Str(TotalsLabel), Str(A_205900014_30))>>)
  /\ totalsRow = TotalsSummary
  /\ regularRows = Arr(<<>>)

\* C14, as claimed: the regular rows and the totals row (when there is one)
\* are together a permutation of funding_history, and no regular row is
\* labelled "Totals".
C14_Permutation ==
  modalStatus = "rendered" =>
    LET rows == fundingHistoryTable.v
        exact(r) == r.t = "obj" /\ KeyShareClass \in DOMAIN r.v
                      /\ r.v[KeyShareClass] = Str(TotalsLabel)
        count(q, x) == Cardinality({i \in 1..Len(q) : q[i] = x})
    IN /\ \A k \in 1..Len(regularRows.v) : ~exact(regularRows.v[k])
       /\ \A i \in 1..Len(rows) :
            count(rows, rows[i])
              = count(regularRows.v, rows[i]) + (IF totalsRow = rows[i] THEN 1 ELSE 0)
       /\ Len(rows) = Len(regularRows.v) + (IF totalsRow = Undefined THEN 0 ELSE 1)

\* C14, amended: no regular row is labelled "Totals"; every row not so
\* labelled is a regular row, as many times as it occurs, and nothing else
\* is; with at most one row labelled "Totals" the regular rows and the
\* totals row are a permutation of funding_history, and with more the rows
\* labelled "Totals" after the first are in neither.
C14_NoRegularRowLost ==
  modalStatus = "rendered" =>
    LET rows == fundingHistoryTable.v
        exact(r) == r.t = "obj" /\ KeyShareClass \in DOMAIN r.v
                      /\ r.v[KeyShareClass] = Str(TotalsLabel)
        m == {i \in 1..Len(rows) : exact(rows[i])}
        count(q, x) == Cardinality({i \in 1..Len(q) : q[i] = x})
    IN /\ \A k \in 1..Len(regularRows.v) : ~exact(regularRows.v[k])
       /\ \A i \in 1..Len(rows) :
            ~exact(rows[i]) => count(regularRows.v, rows[i]) = count(rows, rows[i])
       /\ Len(regularRows.v) = Len(rows) - Cardinality(m)
       /\ Cardinality(m) <= 1 =>
            /\ \A i \in 1..Len(rows) :
                 count(rows, rows[i])
                   = count(regularRows.v, rows[i]) + (IF totalsRow = rows[i] THEN 1 ELSE 0)
            /\ Len(rows) = Len(regularRows.v) + (IF totalsRow = Undefined THEN 0 ELSE 1)
       /\ Cardinality(m) > 1 => Len(regularRows.v) + 1 < Len(rows)

C14_Witness ==
  /\ modalStatus = "rendered"
  /\ fundingHistoryTable = Arr(<<TotalsSummary, Entry(Str(D_3_1_2021), Undefined, Str(A_4000))>>)
  /\ totalsRow = TotalsSummary
  /\ regularRows = Arr(<<Entry(Str(D_3_1_2021), Undefined, Str(A_4000))>>)

\* C15: the regular rows are the rows of funding_history not labelled
\* "Totals" in the order they have there: the k-th regular row is the k-th
\* such row of funding_history.
C15_StablePartition ==
  modalStatus = "rendered" =>
    LET rows == fundingHistoryTable.v
        exact(r) == r.t = "obj" /\ KeyShareClass \in DOMAIN r.v
                      /\ r.v[KeyShareClass] = Str(TotalsLabel)
        kept == {i \in 1..Len(rows) : ~exact(rows[i])}
        rank(i) == Cardinality({j \in kept : j <= i})
    IN /\ Len(regularRows.v) = Cardinality(kept)
       /\ \A i \in kept : regularRows.v[rank(i)] = rows[i]

C15_Witness ==
  /\ modalStatus = "rendered"
  /\ fundingHistoryTable
       = Arr(<<Entry(Str(D_7_22_2021), Str(SeedLabel), Str(A_205900014_30)), SeedRound2020>>)
  /\ regularRows = fundingHistoryTable
  /\ totalsRow = Undefined

\* C16, as claimed: a record whose price_history is not set is assembled
\* with an empty fallback: its price series is the empty array, and the
\* component does not throw.
C16_AbsentPriceIsEmpty ==
  (modalStatus # "idle" /\ company.price_history = Undefined)
    => priceHistory = Arr(<<>>) /\ modalStatus # "threw"

\* C16, amended: a record whose price_history is not set is assembled with
\* the placeholder series as fallback: its price series is the six points
\* Q1 '23 .. Q2 '24 with prices 110, 125, 120, 140, 155, 150, and reading
\* the field logs no error.
C16_AbsentPriceIsPlaceholder ==
  (modalStatus # "idle" /\ company.price_history = Undefined)
    => /\ priceHistory.t = "arr"
       /\ [i \in 1..Len(priceHistory.v) |-> priceHistory.v[i].v[KeyPrice]]
            = <<Num(110), Num(125), Num(120), Num(140), Num(155), Num(150)>>
       /\ [i \in 1..Len(priceHistory.v) |-> priceHistory.v[i].v[KeyName]]
            = <<Str(<<"Q", "1", " ", "'", "2", "3">>), Str(<<"Q", "2", " ", "'", "2", "3">>),
                Str(<<"Q", "3", " ", "'", "2", "3">>), Str(<<"Q", "4", " ", "'", "2", "3">>),
                Str(<<"Q", "1", " ", "'", "2", "4">>), Str(<<"Q", "2", " ", "'", "2", "4">>)>>
       /\ \A i \in 1..Len(console) : console[i] = company.funding_history

C16_Witness ==
  /\ modalStatus = "rendered"
  /\ company.price_history = Undefined
  /\ encoded.funding = Source("json", Arr(<<SeedRound2020>>), "none")
  /\ Len(priceHistory.v) = 6
  /\ console = <<>>

\* C18: a request to /advanced-search carries exactly the fields of the form
\* whose value is not empty, each with the value it has in the form; no
\* field with an empty value is sent.
C18_OnlyNonEmptyFiltersSent ==
  [][\A r \in inflight' \ inflight :
       r.url = API_URL \o "/advanced-search"
         => /\ DOMAIN r.params = {f \in FilterNames : filters[f] # ""}
            /\ \A f \in DOMAIN r.params : r.params[f] = filters[f] /\ r.params[f] # ""]_vars

C18_Witness ==
  /\ filters["name"] = "x"
  /\ filters["sector"] = ""
  /\ \E r \in inflight :
       /\ r.url = API_URL \o "/advanced-search"
       /\ DOMAIN r.params = {"name"}
       /\ r.params["name"] = "x"

\* C19: when a request fails the message is shown, the request is gone and
\* none is made in its place (no call of handleSearch, nothing new pending),
\* and a search can be started afterwards.
C19_FailureShownNoRetry ==
  /\ [][SearchFails => /\ AppView'.error = FetchError
                       /\ started' = started
                       /\ inflight' \subseteq inflight
                       /\ Cardinality(inflight') = Cardinality(inflight) - 1]_vars
  /\ []((error = FetchError /\ started < MaxSearches)
          => ENABLED handleSearch(API_URL \o "/search", [q |-> "fintech", limit |-> 50]))

C19_Witness ==
  /\ error = FetchError
  /\ AppView.error = FetchError
  /\ ~isLoading
  /\ inflight = {}
  /\ started = 1

\* C20: a response whose data is the empty array is a result: results
\* becomes [], the error message is left as it is (empty when it was
\* empty), and the list is rendered in its "No companies found" state.
C20_EmptyResponseIsResult ==
  [][(SearchSucceeds /\ shownRequest' # 0 /\ results' = Arr(<<>>))
       => /\ error' = error
          /\ AppView'.list # Null
          /\ AppView'.list.text = NoCompaniesFound
          /\ AppView'.list.rows = <<>>]_vars

C20_Witness ==
  /\ results = Arr(<<>>)
  /\ error = ""
  /\ ~isLoading
  /\ AppView.error = Null
  /\ AppView.list.text = NoCompaniesFound

\* C21: every scalar field of a company that is absent or empty is shown as
\* "N/A" in the cell of the table and in the place of the modal that show it.
C21_AbsentScalarIsNA ==
  /\ AppView.list # Null =>
       \A i \in 1..Len(results.v) :
         \A f \in {"name", "sector", "overview", "nearing_liquidity_event"} :
           ~Truthy(results.v[i][f]) => AppView.list.rows[i][f] = NA
  /\ AppView.modal # Null =>
       /\ \A f \in {"name", "sector"} :
            ~Truthy(selectedCompany[f]) => AppView.modal[f] = NA
       /\ (~Truthy(selectedCompany.summary) /\ ~Truthy(selectedCompany.overview))
            => AppView.modal.summary = NA

\* C22: whenever the aggregation runs, the chart is a sequence of points and
\* never null or undefined; it is empty when funding_history is empty, and
\* it is empty exactly when no regular row passes the date filter and the
\* test on the year and the amount.
C22_ChartIsAlwaysSequence ==
  modalStatus = "rendered" =>
    LET rows == regularRows.v
        counted(r) ==
          /\ Truthy(Get(r, KeyDate).val)
          /\ YearToString(GetFullYear(Get(r, KeyDate).val.v)) # <<>>
          /\ ~ParseFloat(StripNonNumeric(ToStr(Get(r, KeySize).val))).nan
    IN /\ fundingHistoryChart \in Seq([year : Seq(STRING), amount : Int])
       /\ fundingHistoryTable = Arr(<<>>) => fundingHistoryChart = <<>>
       /\ fundingHistoryChart = <<>> <=> \A k \in 1..Len(rows) : ~counted(rows[k])

C22_Witness ==
  /\ modalStatus = "rendered"
  /\ regularRows = Arr(<<Entry(Str(<<>>), Str(SeedLabel), Str(A_5)),
                         Entry(Str(D_1_1_2020), Str(SeedLabel), Str(NotAvailable))>>)
  /\ fundingHistoryChart = <<>>

\* C23: a call of handleSearch leaves the App with isLoading true, error
\* empty, results null and no company selected, whatever they were, in the
\* step that puts the request in flight.
C23_SearchResetsState ==
  [][started' # started
       => /\ started' = started + 1
          /\ isLoading' = TRUE
          /\ error' = ""
          /\ results' = Null
          /\ selectedCompany' = Null
          /\ \E r \in inflight' : r.id = started' /\ inflight' = inflight \cup {r}]_vars

C23_Witness ==
  /\ started = 2
  /\ Cardinality(inflight) = 1
  /\ isLoading
  /\ error = ""
  /\ results = Null
  /\ selectedCompany = Null

\* C24: every completion, fulfilled or rejected, sets isLoading to false;
\* isLoading goes from false to true only in a call of handleSearch; and,
\* every request being settled in the end, isLoading true leads to
\* isLoading false.
C24_LoadingEnds ==
  /\ [][(SearchSucceeds \/ SearchFails) => isLoading' = FALSE]_vars
  /\ [][(~isLoading /\ isLoading') => started' = started + 1]_vars
  /\ isLoading ~> ~isLoading

C24_Witness ==
  /\ started = 2
  /\ inflight = {}
  /\ ~isLoading
  /\ Truthy(results)

C26_SelectAndCloseFrame ==
  /\ [][onCompanySelect
          => /\ \E i \in 1..Len(results.v) : selectedCompany' = results.v[i]
             /\ UNCHANGED <<results, error, isLoading>>]_vars
  /\ [][onClose => selectedCompany' = Null /\ UNCHANGED <<results, error, isLoading>>]_vars
  /\ [][(selectedCompany' # selectedCompany /\ started' = started)
          => UNCHANGED <<results, error, isLoading, inflight>>]_vars

C26_Witness ==
  /\ results = Arr(<<Acme, Bolt>>)
  /\ selectedCompany = Bolt
  /\ error = ""
  /\ ~isLoading

\* C27: isLoading is true in every state with a request in flight.
C27_LoadingWhileInFlight == inflight # {} => isLoading

\* C28: the error message is non-empty only if results is null.
C28_ErrorOnlyWithoutResults == error # "" => results = Null

\* C29: whenever a company is selected, it is one of the companies of
\* results.
C29_SelectedIsInResults ==
  selectedCompany # Null
    => Truthy(results) /\ \E i \in 1..Len(results.v) : results.v[i] = selectedCompany

\* C30: before rounding, the amounts of the years add up to the sum of the
\* amounts (in millions) of exactly the regular rows that are counted, so
\* no row is counted twice and none that is counted is lost; and every year
\* of the accumulator has its point in the chart.
C30_TotalConserved ==
  modalStatus = "rendered" =>
    LET rows == regularRows.v
        counted(r) ==
          /\ Truthy(Get(r, KeyDate).val)
          /\ YearToString(GetFullYear(Get(r, KeyDate).val.v)) # <<>>
          /\ ~ParseFloat(StripNonNumeric(ToStr(Get(r, KeySize).val))).nan
        millions(r) == InMillions(ParseFloat(StripNonNumeric(ToStr(Get(r, KeySize).val))))
        byYear == Reduce(SelectSeq(rows, HasDate), <<>>)
        RECURSIVE SumOfYears(_)
        SumOfYears(k) == IF k = 0 THEN Zero ELSE Plus(SumOfYears(k - 1), byYear[k].amount)
        RECURSIVE SumOfRows(_)
        SumOfRows(k) ==
          IF k = 0 THEN Zero
          ELSE IF counted(rows[k]) THEN Plus(SumOfRows(k - 1), millions(rows[k]))
          ELSE SumOfRows(k - 1)
    IN /\ SumOfYears(Len(byYear)) = SumOfRows(Len(rows))
       /\ Len(fundingHistoryChart) = Len(byYear)
       /\ \A k \in 1..Len(byYear) :
            \E i \in 1..Len(fundingHistoryChart) :
              /\ fundingHistoryChart[i].year = byYear[k].year
              /\ fundingHistoryChart[i].amount = ToFixed2(byYear[k].amount)

C30_Witness ==
  /\ modalStatus = "rendered"
  /\ regularRows = Arr(<<Entry(Str(D_3_1_2021), Str(SeedLabel), Str(A_94099985_70)),
                         Entry(Str(D_1_1_2020), Str(SeedLabel), Str(NotAvailable))>>)
  /\ fundingHistoryChart = <<[year |-> Year2021, amount |-> 9410]>>
====
